---- MODULE Spec2Model ----
(***************************************************************************)
(* A model of the searchagent search backends: the DuckDuckGo result-page  *)
(* parser and content extractor (WebScraper), the SearXNG API searcher     *)
(* with its two-endpoint fallback, and the searcher factory.               *)
(*                                                                         *)
(* Go strings are byte strings: a string is a sequence of byte values      *)
(* (Naturals below 256) and len() is the number of bytes.  A parsed HTML   *)
(* document is an arena of html.Node records in document (pre-) order,     *)
(* each naming its parent; parent 0 is the Document node.                  *)
(***************************************************************************)
EXTENDS Integers, Sequences, FiniteSets, TLC

VARIABLES
    doc,          \* parser input: the parsed result page (sequence of html.Node)
    limit,        \* the limit argument of the call under way
    p_pc,         \* parser specification: "input" | "parsed" | "extracted"
    p_out         \* parser specification: value returned by the function applied

p_vars == <<doc, limit, p_pc, p_out>>

VARIABLES
    searcher,     \* the Searcher the call is made on: "WebScraper" | "SearXNGAPISearcher"
    urlOK,        \* whether the URL built from base URL and query parses
    ctx,          \* the caller's context: "live" | "canceled"
    pc,           \* where the Search call stands
    ret,          \* what Search returned: [results, err]
    canceledInFlight, \* history: ctx was canceled while a request was in flight
    endpoint,     \* API searcher: index of the endpoint of the loop iteration
    apiResponse,  \* API searcher: apiResponse.Results
    resp,         \* the HTTP response in hand: [Status, Gzip]
    openBodies,   \* API searcher: endpoints whose response body is not closed
    attempts,     \* API searcher, history: how each endpoint attempt ended
    envelope,     \* API searcher, history: the body whose decode succeeded
    page,         \* scraper, history: the parsed result page and the parser's results
    results,      \* scraper: the results slice of searchDuckDuckGo
    idx,          \* scraper: index of the enrichment loop
    fetches       \* scraper, history: how each content fetch ended

s_vars == <<searcher, urlOK, ctx, pc, ret, canceledInFlight, endpoint, apiResponse,
            resp, openBodies, attempts, envelope, page, results, idx, fetches>>

VARIABLES
    f_pc,         \* factory specification: "idle" | "input" | "constructed"
    f_via,        \* which construction path was taken
    f_t,          \* the kind tag given (a SearcherType, or Server.Search's searchType)
    f_url,        \* the endpoint override given
    f_ret         \* what the construction yielded: [searcher, err]

f_vars == <<f_pc, f_via, f_t, f_url, f_ret>>

vars == <<p_vars, s_vars, f_vars>>

----------------------------------------------------------------------------
(* Bounds of the model *)

\* largest limit argument tried
MaxLimit == 2
\* nodes below the Document node in a freely shaped result page
MaxNodes == 4
\* result blocks in a templated result page
MaxBlocks == 3
\* how far beyond the truncation threshold the generated texts reach
Slack == 2
\* entries in the result list of a JSON body that decodes without error
MaxEntries == 2
\* entries in the result list of a JSON body whose decode reports a type error
MaxPartial == 1
\* result blocks in the page the scraping searcher fetches
MaxPageBlocks == 2
\* anchors, texts and nested containers directly under a result container
MaxItems == 3

----------------------------------------------------------------------------
(* The values of the variables while nothing has happened *)

\* no HTTP response in hand
NoResp == [Status |-> 0, Gzip |-> FALSE]
\* no body decoded yet
NoEnvelope == [Kind |-> "none", HasResults |-> FALSE, Results |-> <<>>]
\* no result page fetched and parsed yet
NoPage == [Parsed |-> FALSE, Containers |-> 0, Results |-> <<>>]
\* Search has not returned
NoReturn == [results |-> <<>>, err |-> "(running)"]

ParserIdle == doc = <<>> /\ p_pc = "idle" /\ p_out = <<>>

\* a nil Searcher
NilSearcher == [Impl |-> "nil", baseURL |-> <<>>]

FactoryIdle ==
    /\ f_pc = "idle" /\ f_via = "none" /\ f_t = "" /\ f_url = <<>>
    /\ f_ret = [searcher |-> NilSearcher, err |-> ""]

SearchIdle ==
    /\ searcher = "none" /\ urlOK = TRUE /\ ctx = "live" /\ pc = "idle"
    /\ ret = NoReturn /\ canceledInFlight = FALSE
    /\ endpoint = 1 /\ apiResponse = <<>> /\ resp = NoResp /\ openBodies = {}
    /\ attempts = <<>> /\ envelope = NoEnvelope
    /\ page = NoPage /\ results = <<>> /\ idx = 1 /\ fetches = <<>>

----------------------------------------------------------------------------
(* Byte strings *)

Min(a, b) == IF a < b THEN a ELSE b

\* unicode.IsSpace on the ASCII range: '\t' '\n' '\v' '\f' '\r' ' '
\* (the texts of the model hold no white space outside ASCII)
IsSpace(b) == b \in {9, 10, 11, 12, 13, 32}

\* a UTF-8 continuation byte (10xxxxxx): it starts no character
IsContinuation(b) == b >= 128 /\ b <= 191

\* utf8.RuneCountInString for well-formed text: the bytes that start a character
CharCount(s) == Cardinality({i \in 1..Len(s) : ~IsContinuation(s[i])})

\* the byte offset at which the first n characters of s end
CharPrefixLen(s, n) ==
    IF CharCount(s) <= n THEN Len(s)
    ELSE (CHOOSE i \in 1..Len(s) :
              /\ ~IsContinuation(s[i])
              /\ Cardinality({j \in 1..(i - 1) : ~IsContinuation(s[j])}) = n) - 1

\* a string of n copies of the byte string u
Repeat(u, n) == [i \in 1..(n * Len(u)) |-> u[((i - 1) % Len(u)) + 1]]

\* strings.TrimSpace: drop leading and trailing white space
TrimSpace(s) ==
    LET keep == {i \in 1..Len(s) : ~IsSpace(s[i])}
    IN  IF keep = {} THEN <<>>
        ELSE LET lo == CHOOSE i \in keep : \A j \in keep : i <= j
                 hi == CHOOSE i \in keep : \A j \in keep : j <= i
             IN  SubSeq(s, lo, hi)

\* the 3-byte marker "..."
Ellipsis == <<46, 46, 46>>

----------------------------------------------------------------------------
(* html.Node: Type, Data (tag name of an element, text of a text node),    *)
(* Attr (key/value list) and the parent link.  The value of a class        *)
(* attribute is kept as the token list strings.Split(attr.Val, " ") yields.*)

ElementNode(tag, attrs, parent) ==
    [Type |-> "ElementNode", Data |-> tag, Attr |-> attrs, Parent |-> parent]

TextNode(text, parent) ==
    [Type |-> "TextNode", Data |-> text, Attr |-> <<>>, Parent |-> parent]

ClassAttr(tokens) == [Key |-> "class", Val |-> tokens]
HrefAttr(url)     == [Key |-> "href", Val |-> url]

\* n.FirstChild, then c.NextSibling ...: the children of node n, in order
Children(d, n) ==
    LET kids == {i \in 1..Len(d) : d[i].Parent = n}
        RECURSIVE Sorted(_)
        Sorted(S) == IF S = {} THEN <<>>
                     ELSE LET m == CHOOSE x \in S : \A y \in S : x <= y
                          IN  <<m>> \o Sorted(S \ {m})
    IN  Sorted(kids)

----------------------------------------------------------------------------
(* WebScraper: the result page parser *)

HasAttr(node, key) == \E k \in 1..Len(node.Attr) : node.Attr[k].Key = key

\* the value of the first attribute called key
AttrVal(node, key) ==
    node.Attr[CHOOSE k \in 1..Len(node.Attr) :
                  /\ node.Attr[k].Key = key
                  /\ \A j \in 1..(k - 1) : node.Attr[j].Key # key].Val

IsElement(node, tag) == node.Type = "ElementNode" /\ node.Data = tag

\* hasClass checks if an HTML node has a specific class.  The tokens are what
\* strings.Split(attr.Val, " ") yields; none carries tabs or line breaks, so
\* strings.TrimSpace leaves each as it is
hasClass(node, class) ==
    \E k \in 1..Len(node.Attr) :
        /\ node.Attr[k].Key = "class"
        /\ \E c \in 1..Len(node.Attr[k].Val) : node.Attr[k].Val[c] = class

\* the text nodes under n (n included), concatenated in document order
RECURSIVE extractText(_, _), extractTextOver(_, _)
extractText(d, n) ==
    (IF d[n].Type = "TextNode" THEN d[n].Data ELSE <<>>)
        \o extractTextOver(d, Children(d, n))
extractTextOver(d, cs) ==
    IF cs = <<>> THEN <<>>
    ELSE extractText(d, Head(cs)) \o extractTextOver(d, Tail(cs))

\* getTextContent extracts text content from an HTML node
getTextContent(d, n) == TrimSpace(extractText(d, n))

EmptyResult == [URL |-> <<>>, Title |-> <<>>, Content |-> <<>>]

\* the body of find for one node: title link, snippet, URL text
findAt(d, n, result) ==
    LET node == d[n]
        r1 == IF IsElement(node, "a") /\ hasClass(node, "result__a")
              THEN [result EXCEPT
                      !.URL = IF HasAttr(node, "href") THEN AttrVal(node, "href") ELSE @,
                      !.Title = getTextContent(d, n)]
              ELSE result
        r2 == IF IsElement(node, "a") /\ hasClass(node, "result__snippet")
              THEN [r1 EXCEPT !.Content = getTextContent(d, n)]
              ELSE r1
        r3 == IF IsElement(node, "a") /\ hasClass(node, "result__url") /\ r2.URL = <<>>
              THEN [r2 EXCEPT !.URL = getTextContent(d, n)]
              ELSE r2
    IN  IF node.Type = "ElementNode" THEN r3 ELSE result

\* find: findAt on n, then on every child in order
RECURSIVE find(_, _, _), findOver(_, _, _)
find(d, n, result) == findOver(d, Children(d, n), findAt(d, n, result))
findOver(d, cs, result) ==
    IF cs = <<>> THEN result
    ELSE findOver(d, Tail(cs), find(d, Head(cs), result))

\* extractDesc: the longest trimmed text node, not looking below any <a>
RECURSIVE extractDesc(_, _, _), extractDescOver(_, _, _)
extractDesc(d, n, content) ==
    LET text == TrimSpace(d[n].Data)
        c1   == IF d[n].Type = "TextNode" /\ Len(text) > Len(content)
                THEN text ELSE content
    IN  IF IsElement(d[n], "a") THEN c1
        ELSE extractDescOver(d, Children(d, n), c1)
extractDescOver(d, cs, content) ==
    IF cs = <<>> THEN content
    ELSE extractDescOver(d, Tail(cs), extractDesc(d, Head(cs), content))

\* the content length limit of extractResultFromNode
MaxSnippetLen == 300

\* "Clean up the content": trim, then cut to MaxSnippetLen bytes plus "..."
cleanContent(content) ==
    LET c == TrimSpace(content)
    IN  IF Len(c) > MaxSnippetLen THEN SubSeq(c, 1, MaxSnippetLen) \o Ellipsis ELSE c

\* the content of a container before the clean-up
rawContent(d, n) ==
    LET found == find(d, n, EmptyResult)
    IN  IF found.Content = <<>> THEN extractDesc(d, n, <<>>) ELSE found.Content

\* extractResultFromNode extracts the title, URL and content from a result node
extractResultFromNode(d, n) ==
    [find(d, n, EmptyResult) EXCEPT !.Content = cleanContent(rawContent(d, n))]

\* the test parse makes of a node: a div whose class list holds "result"
isResultContainer(node) == IsElement(node, "div") /\ hasClass(node, "result")

\* parse: n = 0 is the Document node
RECURSIVE parse(_, _, _, _), parseOver(_, _, _, _)
parse(d, n, lim, found) ==
    LET hit == /\ n # 0
               /\ isResultContainer(d[n])
               /\ extractResultFromNode(d, n).URL # <<>>
               /\ extractResultFromNode(d, n).Title # <<>>
        res == IF hit THEN Append(found, extractResultFromNode(d, n)) ELSE found
    IN  IF hit /\ Len(res) >= lim THEN res
        ELSE parseOver(d, Children(d, n), lim, res)
parseOver(d, cs, lim, found) ==
    IF cs = <<>> \/ ~(Len(found) < lim) THEN found
    ELSE parseOver(d, Tail(cs), lim, parse(d, Head(cs), lim, found))

\* a parser that forgets its limit
parseDuckDuckGoResults_nolimit(d, lim) == parse(d, 0, Len(d) + 1, <<>>)

\* parseDuckDuckGoResults parses DuckDuckGo HTML results
parseDuckDuckGoResults(d, lim) == parse(d, 0, lim, <<>>)

----------------------------------------------------------------------------
(* The result pages the parser is run on *)

\* the text, or URL, that names node i
Named(letter, i) == <<letter, 48 + i>>

NodeKinds == {"div.result", "li.result", "a.result__a", "text"}

NodeOfKind(kind, i, parent) ==
    CASE kind = "div.result" ->
           ElementNode("div", <<ClassAttr(<<"result", "web-result">>)>>, parent)
      [] kind = "div" -> ElementNode("div", <<>>, parent)
      [] kind = "li.result" ->
           ElementNode("li", <<ClassAttr(<<"result">>)>>, parent)
      [] kind = "a.result__a" ->
           ElementNode("a", <<ClassAttr(<<"result__a">>), HrefAttr(Named(117, i))>>, parent)
      [] kind = "a.result__a.nohref" ->
           ElementNode("a", <<ClassAttr(<<"result__a">>)>>, parent)
      [] kind = "a.result__snippet" ->
           ElementNode("a", <<ClassAttr(<<"result__snippet">>)>>, parent)
      [] kind = "a.result__url" ->
           ElementNode("a", <<ClassAttr(<<"result__url">>)>>, parent)
      [] kind = "body" -> ElementNode("body", <<>>, parent)
      [] kind = "text" -> TextNode(Named(116, i), parent)
      [] kind = "text3" -> TextNode(Named(116, i) \o <<33>>, parent)
      [] kind = "space" -> TextNode(<<32>>, parent)

\* the last node of d and its ancestors, the Document node included
RECURSIVE RightPath(_, _)
RightPath(d, n) == IF n = 0 THEN {0} ELSE {n} \cup RightPath(d, d[n].Parent)

\* a text node has no children; an <a> holds text only
MayHold(d, parent, kind) ==
    \/ parent = 0
    \/ /\ d[parent].Type = "ElementNode"
       /\ (d[parent].Data = "a" => kind = "text")

\* every page of k nodes, built node by node in document order
RECURSIVE TreesOfSize(_)
TreesOfSize(k) ==
    IF k = 0 THEN {<<>>}
    ELSE {Append(d, NodeOfKind(kind, k, parent)) :
            <<d, kind, parent>> \in
              {x \in TreesOfSize(k - 1) \X NodeKinds \X (0..(k - 1)) :
                  /\ x[3] \in RightPath(x[1], k - 1)
                  /\ MayHold(x[1], x[3], x[2])}}

FreePages == UNION {TreesOfSize(k) : k \in 0..MaxNodes}

\* a result block: the shapes of node kinds under one top element
BlockKinds == {"full", "urltext", "nohref", "li", "untitled"}

\* the nodes of block kind b, placed after base nodes, under parent
Block(b, base, parent) ==
    LET at(k, kind, up) == NodeOfKind(kind, base + k, IF up = 0 THEN parent ELSE base + up)
    IN  CASE b = "full" ->
               <<at(1, "div.result", 0), at(2, "a.result__a", 1), at(3, "text", 2),
                 at(4, "a.result__snippet", 1), at(5, "text", 4)>>
          [] b = "urltext" ->
               <<at(1, "div.result", 0), at(2, "a.result__a.nohref", 1), at(3, "text", 2),
                 at(4, "a.result__url", 1), at(5, "text", 4)>>
          [] b = "nohref" ->
               <<at(1, "div.result", 0), at(2, "a.result__a.nohref", 1), at(3, "text", 2)>>
          [] b = "li" ->
               <<at(1, "li.result", 0), at(2, "a.result__a", 1), at(3, "text", 2)>>
          [] b = "untitled" ->
               <<at(1, "div.result", 0), at(2, "a.result__a", 1), at(3, "space", 2)>>

\* the page <body> block ... block </body>
RECURSIVE PageOf(_, _)
PageOf(bs, d) ==
    IF bs = <<>> THEN d
    ELSE PageOf(Tail(bs), d \o Block(Head(bs), Len(d), 1))

RECURSIVE SeqsUpTo(_, _)
SeqsUpTo(S, n) ==
    IF n = 0 THEN {<<>>}
    ELSE SeqsUpTo(S, n - 1)
           \cup {Append(s, x) : <<s, x>> \in {y \in SeqsUpTo(S, n - 1) \X S : Len(y[1]) = n - 1}}

BlockPages ==
    {PageOf(bs, <<NodeOfKind("body", 1, 0)>>) : bs \in SeqsUpTo(BlockKinds, MaxBlocks)}

ResultPages == FreePages \cup BlockPages

----------------------------------------------------------------------------
(* Specification of the parser as a function of its input *)

ParserInit ==
    /\ SearchIdle /\ FactoryIdle
    /\ doc \in ResultPages
    /\ limit \in 0..MaxLimit
    /\ p_pc = "input"
    /\ p_out = <<>>

\* ws.parseDuckDuckGoResults(string(body), limit)
Parse ==
    /\ p_pc = "input"
    /\ p_out' = parseDuckDuckGoResults(doc, limit)
    /\ p_pc' = "parsed"
    /\ UNCHANGED <<doc, limit, s_vars, f_vars>>

ParserNext == Parse

SpecParser == ParserInit /\ [][ParserNext]_vars

\* the elements of d, in document order, whose class list holds `result`
\* (div elements only, unless anyTag) and that yield a non-empty URL and a
\* non-empty title
RECURSIVE ConformingFrom(_, _, _)
ConformingFrom(d, i, anyTag) ==
    IF i > Len(d) THEN <<>>
    ELSE (IF /\ d[i].Type = "ElementNode"
             /\ (anyTag \/ d[i].Data = "div")
             /\ hasClass(d[i], "result")
             /\ extractResultFromNode(d, i).URL # <<>>
             /\ extractResultFromNode(d, i).Title # <<>>
          THEN <<extractResultFromNode(d, i)>> ELSE <<>>)
         \o ConformingFrom(d, i + 1, anyTag)

\* C9 as claimed: with N the elements whose class list holds `result` and that
\* yield a non-empty URL and title, the parser returns exactly the first
\* min(N, limit) of them, in document order.
C9_AnyElement ==
    p_pc = "parsed" =>
        LET conf == ConformingFrom(doc, 1, TRUE)
        IN  p_out = SubSeq(conf, 1, Min(Len(conf), limit))

\* C9 amended: the same with N counting only the div elements whose class list
\* holds `result`; every result returned has a non-empty URL and title.
C9_DivElement ==
    p_pc = "parsed" =>
        LET conf == ConformingFrom(doc, 1, FALSE)
        IN  /\ p_out = SubSeq(conf, 1, Min(Len(conf), limit))
            /\ \A k \in 1..Len(p_out) : p_out[k].URL # <<>> /\ p_out[k].Title # <<>>

\* a page with more conforming div containers than the limit, and a conforming
\* non-div element besides, has been parsed
C9_Witness ==
    /\ p_pc = "parsed"
    /\ limit >= 1
    /\ Len(ConformingFrom(doc, 1, FALSE)) > limit
    /\ Len(ConformingFrom(doc, 1, TRUE)) > Len(ConformingFrom(doc, 1, FALSE))
    /\ Len(p_out) = limit

----------------------------------------------------------------------------
(* Specification of extractResultFromNode on containers with long content *)

\* "a", and the two bytes of U+00E9
TextUnits == {<<97>>, <<195, 169>>}

Pads == {<<>>, <<32>>}

\* the unit counts tried: few, and those around the byte threshold
UnitCounts(u) ==
    (0..Slack)
      \cup {n \in 1..(MaxSnippetLen + Slack) :
              \/ n * Len(u) \in (MaxSnippetLen - Slack)..(MaxSnippetLen + Slack)
              \/ n \in (MaxSnippetLen - Slack)..(MaxSnippetLen + Slack)}

LongTexts ==
    {pre \o Repeat(u, n) \o post :
        <<pre, u, n, post>> \in
          {x \in Pads \X TextUnits \X (0..(MaxSnippetLen + Slack)) \X Pads :
              x[3] \in UnitCounts(x[2])}}

\* <div class=result><a class=result__a href=u1>t3</a> content </div> with the
\* content either in a result__snippet anchor or as a bare text node
SnippetPage(text, inAnchor) ==
    <<NodeOfKind("div.result", 1, 0), NodeOfKind("a.result__a", 2, 1),
      NodeOfKind("text", 3, 2)>>
      \o (IF inAnchor
          THEN <<NodeOfKind("a.result__snippet", 4, 1), TextNode(text, 4)>>
          ELSE <<TextNode(text, 1)>>)

SnippetPages == {SnippetPage(t, b) : <<t, b>> \in LongTexts \X BOOLEAN}

SnippetInit ==
    /\ SearchIdle /\ FactoryIdle
    /\ doc \in SnippetPages
    /\ limit = 1
    /\ p_pc = "input"
    /\ p_out = <<>>

\* result := ws.extractResultFromNode(n), n the container
ExtractResult ==
    /\ p_pc = "input"
    /\ p_out' = <<extractResultFromNode(doc, 1)>>
    /\ p_pc' = "extracted"
    /\ UNCHANGED <<doc, limit, s_vars, f_vars>>

SnippetNext == ExtractResult

SpecSnippet == SnippetInit /\ [][SnippetNext]_vars

\* C10 as claimed, in characters: content of more than 300 characters comes out
\* as its first 300 characters plus "...", 303 characters long; content of 300
\* characters or fewer comes out as the trimmed text, unchanged.
C10_Characters ==
    p_pc = "extracted" =>
        LET t == TrimSpace(rawContent(doc, 1))
            c == p_out[1].Content
        IN  IF CharCount(t) > MaxSnippetLen
            THEN /\ c = SubSeq(t, 1, CharPrefixLen(t, MaxSnippetLen)) \o Ellipsis
                 /\ CharCount(c) = MaxSnippetLen + 3
            ELSE c = t

\* what the code does, in bytes
C10_Bytes ==
    p_pc = "extracted" =>
        LET t == TrimSpace(rawContent(doc, 1))
            c == p_out[1].Content
        IN  IF Len(t) > MaxSnippetLen
            THEN c = SubSeq(t, 1, MaxSnippetLen) \o Ellipsis /\ Len(c) = MaxSnippetLen + 3
            ELSE c = t

----------------------------------------------------------------------------
(* SearXNGAPISearcher *)

\* endpoints := []string{"/api/v1/search", "/search"}
endpoints == <<"/api/v1/search", "/search">>

\* a JSON member that is present with a string value, or absent (absent, null
\* and a value of another type all leave the Go field as it was)
Member(v) == [Set |-> TRUE, Val |-> v]
NoMember == [Set |-> FALSE, Val |-> <<>>]

\* the result entries endpoint ep may send at position i
EntriesAt(ep, i) ==
    LET t == Member(<<116, 48 + ep, 48 + i>>)
        u == Member(<<117, 48 + ep, 48 + i>>)
        c == Member(<<99, 48 + ep, 48 + i>>)
    IN  { [title |-> t, url |-> u, content |-> c],
          [title |-> NoMember, url |-> u, content |-> c],
          [title |-> t, url |-> NoMember, content |-> c],
          [title |-> t, url |-> u, content |-> NoMember],
          [title |-> Member(<<>>), url |-> u, content |-> c] }

RECURSIVE EntryLists(_, _)
EntryLists(ep, n) ==
    IF n = 0 THEN {<<>>}
    ELSE EntryLists(ep, n - 1)
           \cup {Append(l, e) :
                   <<l, e>> \in {x \in EntryLists(ep, n - 1) \X EntriesAt(ep, n) :
                                    Len(x[1]) = n - 1}}

\* the response bodies of endpoint ep.  Kind "invalid": json.Unmarshal fails
\* before storing anything (not JSON, or `results` is no array).  Kind "type":
\* well-formed JSON with a value of the wrong type somewhere; Unmarshal stores
\* what fits and reports the type error.  Kind "ok": Unmarshal returns nil;
\* HasResults tells whether the object has a `results` array.
Bodies(ep) ==
    {[Kind |-> "invalid", HasResults |-> FALSE, Results |-> <<>>]}
      \cup {[Kind |-> "ok", HasResults |-> FALSE, Results |-> <<>>]}
      \cup {[Kind |-> "ok", HasResults |-> TRUE, Results |-> l] : l \in EntryLists(ep, MaxEntries)}
      \cup {[Kind |-> "type", HasResults |-> TRUE, Results |-> l] : l \in EntryLists(ep, MaxPartial)}

ZeroSearXNGResult == [Title |-> <<>>, URL |-> <<>>, Content |-> <<>>]

\* decoding a JSON object into a SearXNGResult: members present are stored,
\* the other fields keep their value
storeEntry(old, e) ==
    [Title   |-> IF e.title.Set THEN e.title.Val ELSE old.Title,
     URL     |-> IF e.url.Set THEN e.url.Val ELSE old.URL,
     Content |-> IF e.content.Set THEN e.content.Val ELSE old.Content]

\* decoding a JSON array into the Results slice: element i is decoded into the
\* slice's element i where it has one, the slice is cut or grown to the array
storeResults(old, list) ==
    [i \in 1..Len(list) |->
        storeEntry(IF i <= Len(old) THEN old[i] ELSE ZeroSearXNGResult, list[i])]

\* json.Unmarshal(body, &apiResponse): the new apiResponse.Results
unmarshal(old, body) ==
    IF body.Kind = "invalid" \/ ~body.HasResults THEN old
    ELSE storeResults(old, body.Results)

unmarshalErr(body) == body.Kind # "ok"

NoValidResponse == "no valid JSON response from any endpoint"

\* a conversion that forgets the limit
convert_nolimit(list, lim) ==
    LET RECURSIVE conv(_, _)
        conv(k, acc) ==
            IF k > Len(list) THEN acc
            ELSE IF list[k].Title = <<>> \/ list[k].URL = <<>> THEN conv(k + 1, acc)
            ELSE conv(k + 1, Append(acc, [URL |-> list[k].URL, Title |-> list[k].Title,
                                          Content |-> list[k].Content]))
    IN  conv(1, <<>>)

\* "Convert the API results to our SearchResult format"
convert(list, lim) ==
    LET RECURSIVE conv(_, _)
        conv(k, acc) ==
            IF k > Len(list) \/ Len(acc) >= lim THEN acc
            ELSE IF list[k].Title = <<>> \/ list[k].URL = <<>> THEN conv(k + 1, acc)
            ELSE conv(k + 1, Append(acc, [URL |-> list[k].URL, Title |-> list[k].Title,
                                          Content |-> list[k].Content]))
    IN  conv(1, <<>>)

StatusCodes == {200, 500}

IsAPI == searcher = "SearXNGAPISearcher"

\* `continue`: on to the next endpoint, or out of the loop
apiContinue(outcome) ==
    /\ attempts' = Append(attempts, [Endpoint |-> endpoints[endpoint],
                                     Status |-> resp.Status, Outcome |-> outcome])
    /\ resp' = NoResp
    /\ IF endpoint < Len(endpoints)
       THEN endpoint' = endpoint + 1 /\ pc' = "request"
       ELSE endpoint' = endpoint /\ pc' = "finish"

\* http.NewRequestWithContext: an error skips the endpoint
APINewRequest ==
    /\ IsAPI /\ pc = "request"
    /\ IF urlOK
       THEN /\ pc' = "inflight"
            /\ UNCHANGED <<endpoint, attempts, resp>>
       ELSE apiContinue("request error")
    /\ UNCHANGED <<p_vars, f_vars, searcher, urlOK, ctx, ret, canceledInFlight, apiResponse,
                   openBodies, envelope, page, results, idx, fetches>>

\* s.client.Do(req) fails: connection, timeout, or the context is done
APIDoError ==
    /\ IsAPI /\ pc = "inflight"
    /\ apiContinue("transport error")
    /\ UNCHANGED <<p_vars, f_vars, searcher, urlOK, ctx, ret, canceledInFlight, apiResponse,
                   openBodies, envelope, page, results, idx, fetches>>

\* s.client.Do(req) returns a response: any status, gzip-encoded or not
APIDoResponse ==
    /\ IsAPI /\ pc = "inflight" /\ ctx = "live"
    /\ \E st \in StatusCodes, gz \in BOOLEAN : resp' = [Status |-> st, Gzip |-> gz]
    /\ openBodies' = openBodies \cup {endpoint}
    /\ pc' = "read"
    /\ UNCHANGED <<p_vars, f_vars, searcher, urlOK, ctx, ret, canceledInFlight, endpoint, apiResponse,
                   attempts, envelope, page, results, idx, fetches>>

\* gzip.NewReader(resp.Body) fails: the body is closed, next endpoint
APIGzipError ==
    /\ IsAPI /\ pc = "read" /\ resp.Gzip
    /\ openBodies' = openBodies \ {endpoint}
    /\ apiContinue("gzip error")
    /\ UNCHANGED <<p_vars, f_vars, searcher, urlOK, ctx, ret, canceledInFlight, apiResponse,
                   envelope, page, results, idx, fetches>>

\* io.ReadAll fails (of the gzip reader or of the body): the body is closed
APIReadError ==
    /\ IsAPI /\ pc = "read"
    /\ openBodies' = openBodies \ {endpoint}
    /\ apiContinue("read error")
    /\ UNCHANGED <<p_vars, f_vars, searcher, urlOK, ctx, ret, canceledInFlight, apiResponse,
                   envelope, page, results, idx, fetches>>

\* io.ReadAll succeeds.  The plain branch closes resp.Body; the gzip branch
\* closes the gzip reader only
APIReadBody ==
    /\ IsAPI /\ pc = "read" /\ ctx = "live"
    /\ openBodies' = IF resp.Gzip THEN openBodies ELSE openBodies \ {endpoint}
    /\ pc' = "decode"
    /\ UNCHANGED <<p_vars, f_vars, searcher, urlOK, ctx, ret, canceledInFlight, endpoint, apiResponse,
                   resp, attempts, envelope, page, results, idx, fetches>>

\* json.Unmarshal(body, &apiResponse): `continue` on an error, else `break`
APIDecode ==
    /\ IsAPI /\ pc = "decode"
    /\ \E body \in Bodies(endpoint) :
          /\ apiResponse' = unmarshal(apiResponse, body)
          /\ IF unmarshalErr(body)
             THEN /\ apiContinue(IF body.Kind = "type" THEN "type error" ELSE "decode error")
                  /\ UNCHANGED envelope
             ELSE /\ attempts' = Append(attempts, [Endpoint |-> endpoints[endpoint],
                                                   Status |-> resp.Status,
                                                   Outcome |-> "decoded"])
                  /\ envelope' = body
                  /\ resp' = NoResp
                  /\ pc' = "finish"
                  /\ UNCHANGED endpoint
    /\ UNCHANGED <<p_vars, f_vars, searcher, urlOK, ctx, ret, canceledInFlight, openBodies,
                   page, results, idx, fetches>>

\* after the loop: the exhaustion error, or the converted results
APIReturn ==
    /\ IsAPI /\ pc = "finish"
    /\ ret' = IF Len(apiResponse) = 0
              THEN [results |-> <<>>, err |-> NoValidResponse]
              ELSE [results |-> convert(apiResponse, limit), err |-> ""]
    /\ pc' = "done"
    /\ UNCHANGED <<p_vars, f_vars, searcher, urlOK, ctx, canceledInFlight, endpoint, apiResponse, resp,
                   openBodies, attempts, envelope, page, results, idx, fetches>>

\* the caller cancels the context, or its deadline passes
Cancel ==
    /\ ctx = "live" /\ pc # "done"
    /\ ctx' = "canceled"
    /\ canceledInFlight' = (pc \in {"inflight", "read", "content inflight", "content read"})
    /\ UNCHANGED <<p_vars, f_vars, searcher, urlOK, pc, ret, endpoint, apiResponse, resp, openBodies,
                   attempts, envelope, page, results, idx, fetches>>

----------------------------------------------------------------------------
(* WebScraper: the content extractor *)

BlockTags == {"p", "div", "h1", "h2", "h3", "h4", "h5", "h6", "br", "li", "tr", "td"}

\* extractText of extractTextFromHTML: the text below n, a space after each
\* block element; n = 0 is the Document node
RECURSIVE blockText(_, _), blockTextOver(_, _)
blockText(d, n) ==
    IF n # 0 /\ d[n].Type = "TextNode" THEN d[n].Data
    ELSE blockTextOver(d, Children(d, n))
           \o (IF n # 0 /\ d[n].Type = "ElementNode" /\ d[n].Data \in BlockTags
               THEN <<32>> ELSE <<>>)
blockTextOver(d, cs) ==
    IF cs = <<>> THEN <<>>
    ELSE blockText(d, Head(cs)) \o blockTextOver(d, Tail(cs))

\* unicode.IsSpace as strings.Fields applies it to the character that starts
\* at byte i of s: the number of bytes of that character if it is white space
\* ('\t' '\n' '\v' '\f' '\r' ' ', U+0085, U+00A0, U+1680, U+2000..U+200A,
\* U+2028, U+2029, U+202F, U+205F, U+3000 in UTF-8), 0 otherwise
SpaceLen(s, i) ==
    IF IsSpace(s[i]) THEN 1
    ELSE IF i + 1 <= Len(s) /\ s[i] = 194 /\ s[i + 1] \in {133, 160} THEN 2
    ELSE IF /\ i + 2 <= Len(s)
            /\ \/ s[i] = 225 /\ s[i + 1] = 154 /\ s[i + 2] = 128
               \/ s[i] = 226 /\ s[i + 1] = 128
                             /\ s[i + 2] \in (128..138) \cup {168, 169, 175}
               \/ s[i] = 226 /\ s[i + 1] = 129 /\ s[i + 2] = 159
               \/ s[i] = 227 /\ s[i + 1] = 128 /\ s[i + 2] = 128
         THEN 3
    ELSE 0

\* strings.Fields: the maximal runs of characters that are not white space
RECURSIVE Fields(_)
Fields(s) ==
    IF s = <<>> THEN <<>>
    ELSE IF SpaceLen(s, 1) > 0 THEN Fields(SubSeq(s, 1 + SpaceLen(s, 1), Len(s)))
    ELSE LET stops == {i \in 1..Len(s) : SpaceLen(s, i) > 0}
             end   == IF stops = {} THEN Len(s) + 1
                      ELSE CHOOSE i \in stops : \A j \in stops : i <= j
         IN  <<SubSeq(s, 1, end - 1)>> \o Fields(SubSeq(s, end, Len(s)))

\* strings.Join(words, " ")
RECURSIVE Join(_)
Join(words) ==
    IF words = <<>> THEN <<>>
    ELSE IF Len(words) = 1 THEN words[1]
    ELSE words[1] \o <<32>> \o Join(Tail(words))

\* extractTextFromHTML removes HTML tags and returns text content
extractTextFromHTML(d) == Join(Fields(blockText(d, 0)))

\* the content length limit of extractContentFromURL
MaxContentLen == 2000

\* extractContentFromURL without the cut
extractContent_nocut(d) == extractTextFromHTML(d)

\* extractContentFromURL, from the body on: extract, then cut to MaxContentLen
extractContent(d) ==
    LET content == extractTextFromHTML(d)
    IN  IF Len(content) > MaxContentLen THEN SubSeq(content, 1, MaxContentLen) ELSE content

\* the pages behind the result URLs: an empty page;
\* <h1>a</h1><p> b  c</p>; <div>d<br>e</div> f
ContentPages ==
    { <<>>,
      <<ElementNode("h1", <<>>, 0), TextNode(<<97>>, 1),
        ElementNode("p", <<>>, 0), TextNode(<<32, 98, 32, 10, 99>>, 3)>>,
      <<ElementNode("div", <<>>, 0), TextNode(<<100>>, 1), ElementNode("br", <<>>, 1),
        TextNode(<<101>>, 1), TextNode(<<32, 102>>, 0)>> }

----------------------------------------------------------------------------
(* Specification of extractResultFromNode on containers of several anchors *)

\* what a container holds: a title link with and without href, a title link
\* without text, a snippet link with text and with a space only, a URL link, a
\* text node of 2 and of 3 bytes, a nested container
ItemKinds == {"A", "A0", "Ae", "S", "Se", "U", "T2", "T3", "N"}

\* the nodes of item kind k, placed after base nodes, under the container 1
Item(k, base) ==
    LET at(j, kind, up) == NodeOfKind(kind, base + j, IF up = 0 THEN 1 ELSE base + up)
    IN  CASE k = "A"  -> <<at(1, "a.result__a", 0), at(2, "text", 1)>>
          [] k = "A0" -> <<at(1, "a.result__a.nohref", 0), at(2, "text", 1)>>
          [] k = "Ae" -> <<at(1, "a.result__a", 0)>>
          [] k = "S"  -> <<at(1, "a.result__snippet", 0), at(2, "text", 1)>>
          [] k = "Se" -> <<at(1, "a.result__snippet", 0), at(2, "space", 1)>>
          [] k = "U"  -> <<at(1, "a.result__url", 0), at(2, "text3", 1)>>
          [] k = "T2" -> <<at(1, "text", 0)>>
          [] k = "T3" -> <<at(1, "text3", 0)>>
          [] k = "N"  -> <<at(1, "div.result", 0), at(2, "a.result__a", 1),
                           at(3, "text", 2), at(4, "text", 1)>>

\* the page <div class="result web-result"> item ... item </div>
RECURSIVE ContainerOf(_, _)
ContainerOf(ks, d) ==
    IF ks = <<>> THEN d
    ELSE ContainerOf(Tail(ks), d \o Item(Head(ks), Len(d)))

ContainerPages ==
    {ContainerOf(ks, <<NodeOfKind("div.result", 1, 0)>>) : ks \in SeqsUpTo(ItemKinds, MaxItems)}

ContainerInit ==
    /\ SearchIdle /\ FactoryIdle
    /\ doc \in ContainerPages
    /\ limit = 1
    /\ p_pc = "input"
    /\ p_out = <<>>

SpecContainer == ContainerInit /\ [][SnippetNext]_vars

\* the anchors of d with the class, in document order (every node after the
\* container 1 is a descendant of it)
AnchorsOf(d, class) == {n \in 2..Len(d) : IsElement(d[n], "a") /\ hasClass(d[n], class)}

FirstOf(S) == CHOOSE n \in S : \A m \in S : n <= m
LastOf(S) == CHOOSE n \in S : \A m \in S : m <= n

\* C12 as claimed: the URL and the title come from the first result__a anchor
\* of the container (its href, its trimmed text), and the snippet from the
\* first result__snippet anchor; later such anchors change nothing.
C12_FirstAnchor ==
    p_pc = "extracted" =>
        LET titles   == AnchorsOf(doc, "result__a")
            snippets == AnchorsOf(doc, "result__snippet")
        IN  /\ titles # {} =>
                 /\ p_out[1].Title = getTextContent(doc, FirstOf(titles))
                 /\ HasAttr(doc[FirstOf(titles)], "href") =>
                        p_out[1].URL = AttrVal(doc[FirstOf(titles)], "href")
            /\ (snippets # {} /\ getTextContent(doc, FirstOf(snippets)) # <<>>) =>
                 p_out[1].Content = getTextContent(doc, FirstOf(snippets))

\* what the code does: the title is the text of the last result__a anchor, the
\* URL the href of the last result__a anchor that has one, the snippet the
\* text of the last result__snippet anchor when that text is not empty
C12_LastAnchor ==
    p_pc = "extracted" =>
        LET titles   == AnchorsOf(doc, "result__a")
            linked   == {n \in titles : HasAttr(doc[n], "href")}
            snippets == AnchorsOf(doc, "result__snippet")
        IN  /\ titles # {} => p_out[1].Title = getTextContent(doc, LastOf(titles))
            /\ linked # {} => p_out[1].URL = AttrVal(doc[LastOf(linked)], "href")
            /\ (snippets # {} /\ getTextContent(doc, LastOf(snippets)) # <<>>) =>
                 p_out[1].Content = getTextContent(doc, LastOf(snippets))

\* node n of d lies below an <a> element (one of class result__a, unless anyAnchor)
RECURSIVE BelowAnchor(_, _, _)
BelowAnchor(d, n, anyAnchor) ==
    LET up == d[n].Parent
    IN  /\ up # 0
        /\ \/ IsElement(d[up], "a") /\ (anyAnchor \/ hasClass(d[up], "result__a"))
           \/ BelowAnchor(d, up, anyAnchor)

\* the longest trimmed text among the text nodes of the container that are not
\* below such an anchor, the first in document order among those of that
\* length; empty if there is none
LongestText(d, anyAnchor) ==
    LET cands == {n \in 2..Len(d) : d[n].Type = "TextNode" /\ ~BelowAnchor(d, n, anyAnchor)}
        T(n)  == TrimSpace(d[n].Data)
    IN  IF cands = {} THEN <<>>
        ELSE T(CHOOSE n \in cands :
                 \A m \in cands : \/ Len(T(m)) < Len(T(n))
                                  \/ Len(T(m)) = Len(T(n)) /\ n <= m)

\* C13 as claimed: without snippet text, the content is the longest trimmed
\* text node among all text nodes of the container outside the title anchor
\* (text inside other anchors included), the first one among equals.
C13_OutsideTitleAnchor ==
    (p_pc = "extracted" /\ find(doc, 1, EmptyResult).Content = <<>>) =>
        p_out[1].Content = cleanContent(LongestText(doc, FALSE))

\* what the code does: text nodes below any <a> element are passed over
C13_OutsideAnyAnchor ==
    (p_pc = "extracted" /\ find(doc, 1, EmptyResult).Content = <<>>) =>
        p_out[1].Content = cleanContent(LongestText(doc, TRUE))

----------------------------------------------------------------------------
(* Specification of the content extractor as a function of the page *)

\* where a text of the page sits: in a block element, in an inline element,
\* or directly under the Document node
ContentTags == {"p", "span", "none"}

\* "", "a", " ", "\n\t", U+00A0, "a  b", U+3000 U+00E9
ShortTexts ==
    {<<>>, <<97>>, <<32>>, <<10, 9>>, <<194, 160>>, <<97, 32, 32, 98>>,
     <<227, 128, 128, 195, 169>>}

\* "a", U+00E9, and a word of 99 letters with its space
ContentUnits == {<<97>>, <<195, 169>>, Repeat(<<97>>, 99) \o <<32>>}

ContentPads == {<<>>, <<97>>, <<32>>}

\* texts whose length is around the cut of extractContentFromURL
LongContentTexts ==
    {pre \o Repeat(u, n) :
        <<pre, u, n>> \in
          {x \in ContentPads \X ContentUnits \X (1..(MaxContentLen + Slack)) :
              x[3] * Len(x[2]) \in (MaxContentLen - Slack)..(MaxContentLen + Slack)}}

\* the nodes of one text of the page, placed after base nodes
Segment(tag, text, base) ==
    IF tag = "none" THEN (IF text = <<>> THEN <<>> ELSE <<TextNode(text, 0)>>)
    ELSE <<ElementNode(tag, <<>>, 0)>>
           \o (IF text = <<>> THEN <<>> ELSE <<TextNode(text, base + 1)>>)

RECURSIVE SegmentsPage(_, _)
SegmentsPage(segs, d) ==
    IF segs = <<>> THEN d
    ELSE SegmentsPage(Tail(segs), d \o Segment(Head(segs)[1], Head(segs)[2], Len(d)))

\* what may follow a long text: "a", U+00A0, U+3000 U+00E9, in an inline element
Followers ==
    {<<>>} \cup {<<<<"span", t>>>> : t \in {<<97>>, <<194, 160>>, <<227, 128, 128, 195, 169>>}}

\* pages of up to two short texts, and pages of a long text and what follows it
ExtractorPages ==
    {SegmentsPage(segs, <<>>) : segs \in SeqsUpTo(ContentTags \X ShortTexts, 2)}
      \cup {SegmentsPage(<<long>> \o segs, <<>>) :
              <<long, segs>> \in (ContentTags \X LongContentTexts) \X Followers}

ContentInit ==
    /\ SearchIdle /\ FactoryIdle
    /\ doc \in ExtractorPages
    /\ limit = 0
    /\ p_pc = "input"
    /\ p_out = <<>>

\* content := extractTextFromHTML(string(body)), cut to 2000 bytes
ExtractContent ==
    /\ p_pc = "input"
    /\ p_out' = <<extractContent(doc)>>
    /\ p_pc' = "content"
    /\ UNCHANGED <<doc, limit, s_vars, f_vars>>

ContentNext == ExtractContent

SpecContent == ContentInit /\ [][ContentNext]_vars

\* a white space character ends at the last byte of s
EndsInSpace(s) == \E i \in 1..Len(s) : SpaceLen(s, i) > 0 /\ i + SpaceLen(s, i) - 1 = Len(s)

\* C11: the text the content extractor yields has at most 2000 characters, no
\* white space character other than the space, no two spaces in a row, and
\* before the cut neither starts nor ends in white space.
C11_ContentBounds ==
    p_pc = "content" =>
        LET c    == p_out[1]
            full == extractTextFromHTML(doc)
        IN  /\ CharCount(c) <= MaxContentLen
            /\ \A i \in 1..Len(c) : SpaceLen(c, i) > 0 => c[i] = 32
            /\ \A i \in 1..(Len(c) - 1) : ~(c[i] = 32 /\ c[i + 1] = 32)
            /\ full # <<>> => SpaceLen(full, 1) = 0 /\ ~EndsInSpace(full)

\* a page with runs of white space, one of them not ASCII, whose text is longer
\* than the cut has been extracted, and the cut fell inside a character
C11_Witness ==
    /\ p_pc = "content"
    /\ Len(extractTextFromHTML(doc)) > MaxContentLen
    /\ Len(p_out[1]) = MaxContentLen
    /\ \E n \in 1..Len(doc) :
          doc[n].Type = "TextNode" /\ \E i \in 1..Len(doc[n].Data) : SpaceLen(doc[n].Data, i) > 1
    /\ p_out[1][MaxContentLen] = 195

----------------------------------------------------------------------------
(* WebScraper.Search and searchDuckDuckGo *)

IsScraper == searcher = "WebScraper"

\* the result pages the search engine may answer with
ScraperPages ==
    {PageOf(bs, <<NodeOfKind("body", 1, 0)>>) : bs \in SeqsUpTo(BlockKinds, MaxPageBlocks)}

\* `return nil, err` of searchDuckDuckGo, handed on by Search
wsFail(err) ==
    /\ ret' = [results |-> <<>>, err |-> err]
    /\ pc' = "done"

\* http.NewRequestWithContext for the result page
WSNewRequest ==
    /\ IsScraper /\ pc = "request"
    /\ IF urlOK THEN pc' = "inflight" /\ UNCHANGED ret ELSE wsFail("request error")
    /\ UNCHANGED <<p_vars, f_vars, searcher, urlOK, ctx, canceledInFlight, endpoint, apiResponse, resp,
                   openBodies, attempts, envelope, page, results, idx, fetches>>

\* ws.client.Do(req) fails
WSDoError ==
    /\ IsScraper /\ pc = "inflight"
    /\ wsFail("transport error")
    /\ UNCHANGED <<p_vars, f_vars, searcher, urlOK, ctx, canceledInFlight, endpoint, apiResponse, resp,
                   openBodies, attempts, envelope, page, results, idx, fetches>>

\* ws.client.Do(req) returns a response
WSDoResponse ==
    /\ IsScraper /\ pc = "inflight" /\ ctx = "live"
    /\ \E st \in StatusCodes : resp' = [Status |-> st, Gzip |-> FALSE]
    /\ pc' = "read"
    /\ UNCHANGED <<p_vars, f_vars, searcher, urlOK, ctx, ret, canceledInFlight, endpoint, apiResponse,
                   openBodies, attempts, envelope, page, results, idx, fetches>>

\* resp.StatusCode != http.StatusOK
WSStatusError ==
    /\ IsScraper /\ pc = "read" /\ resp.Status # 200
    /\ wsFail("status code error")
    /\ resp' = NoResp
    /\ UNCHANGED <<p_vars, f_vars, searcher, urlOK, ctx, canceledInFlight, endpoint, apiResponse,
                   openBodies, attempts, envelope, page, results, idx, fetches>>

\* io.ReadAll(resp.Body) fails
WSReadError ==
    /\ IsScraper /\ pc = "read" /\ resp.Status = 200
    /\ wsFail("read error")
    /\ resp' = NoResp
    /\ UNCHANGED <<p_vars, f_vars, searcher, urlOK, ctx, canceledInFlight, endpoint, apiResponse,
                   openBodies, attempts, envelope, page, results, idx, fetches>>

\* the body is read and parsed: results := ws.parseDuckDuckGoResults(body, limit)
WSParse ==
    /\ IsScraper /\ pc = "read" /\ resp.Status = 200 /\ ctx = "live"
    /\ \E d \in ScraperPages :
          /\ results' = parseDuckDuckGoResults(d, limit)
          /\ page' = [Parsed |-> TRUE,
                      Containers |-> Cardinality({n \in 1..Len(d) : isResultContainer(d[n])}),
                      Results |-> parseDuckDuckGoResults(d, limit)]
    /\ idx' = 1
    /\ resp' = NoResp
    /\ pc' = "enrich"
    /\ UNCHANGED <<p_vars, f_vars, searcher, urlOK, ctx, ret, canceledInFlight, endpoint, apiResponse,
                   openBodies, attempts, envelope, fetches>>

\* a content fetch that leaves results[idx] alone, aborting the search
contentFailed_abort(outcome) ==
    /\ fetches' = Append(fetches, outcome)
    /\ ret' = [results |-> <<>>, err |-> outcome]
    /\ resp' = NoResp
    /\ pc' = "done"
    /\ UNCHANGED <<idx, results>>

\* extractContentFromURL returned an error: `continue` with the next result
contentFailed(outcome) ==
    /\ fetches' = Append(fetches, outcome)
    /\ idx' = idx + 1
    /\ resp' = NoResp
    /\ pc' = "enrich"
    /\ UNCHANGED <<ret, results>>

\* extractContentFromURL: http.NewRequestWithContext(ctx, "GET", pageURL, nil)
WSContentNewRequest ==
    /\ IsScraper /\ pc = "enrich" /\ idx <= Len(results)
    /\ \/ pc' = "content inflight" /\ UNCHANGED <<ret, results, idx, fetches, resp>>
       \/ contentFailed("request error")
    /\ UNCHANGED <<p_vars, f_vars, searcher, urlOK, ctx, canceledInFlight, endpoint, apiResponse,
                   openBodies, attempts, envelope, page>>

\* extractContentFromURL: ws.client.Do(req) fails
WSContentDoError ==
    /\ IsScraper /\ pc = "content inflight"
    /\ contentFailed("transport error")
    /\ UNCHANGED <<p_vars, f_vars, searcher, urlOK, ctx, canceledInFlight, endpoint, apiResponse,
                   openBodies, attempts, envelope, page>>

\* extractContentFromURL: ws.client.Do(req) returns a response
WSContentDoResponse ==
    /\ IsScraper /\ pc = "content inflight" /\ ctx = "live"
    /\ \E st \in StatusCodes : resp' = [Status |-> st, Gzip |-> FALSE]
    /\ pc' = "content read"
    /\ UNCHANGED <<p_vars, f_vars, searcher, urlOK, ctx, ret, canceledInFlight, endpoint, apiResponse,
                   openBodies, attempts, envelope, page, results, idx, fetches>>

\* extractContentFromURL: resp.StatusCode != http.StatusOK
WSContentStatusError ==
    /\ IsScraper /\ pc = "content read" /\ resp.Status # 200
    /\ contentFailed("status code error")
    /\ UNCHANGED <<p_vars, f_vars, searcher, urlOK, ctx, canceledInFlight, endpoint, apiResponse,
                   openBodies, attempts, envelope, page>>

\* extractContentFromURL: io.ReadAll(resp.Body) fails
WSContentReadError ==
    /\ IsScraper /\ pc = "content read" /\ resp.Status = 200
    /\ contentFailed("read error")
    /\ UNCHANGED <<p_vars, f_vars, searcher, urlOK, ctx, canceledInFlight, endpoint, apiResponse,
                   openBodies, attempts, envelope, page>>

\* extractContentFromURL returns the page's text: results[i].Content = content
WSContentExtract ==
    /\ IsScraper /\ pc = "content read" /\ resp.Status = 200 /\ ctx = "live"
    /\ \E d \in ContentPages :
          results' = [results EXCEPT ![idx].Content = extractContent(d)]
    /\ fetches' = Append(fetches, "ok")
    /\ idx' = idx + 1
    /\ resp' = NoResp
    /\ pc' = "enrich"
    /\ UNCHANGED <<p_vars, f_vars, searcher, urlOK, ctx, ret, canceledInFlight, endpoint, apiResponse,
                   openBodies, attempts, envelope, page>>

\* Search, after searchDuckDuckGo returned: at most limit of searchResults
searchReturn(searchResults, lim) ==
    IF Len(searchResults) = 0 THEN <<>>
    ELSE SubSeq(searchResults, 1, Min(Len(searchResults), lim))

\* the enrichment loop is over: searchDuckDuckGo returns, then Search
WSReturn ==
    /\ IsScraper /\ pc = "enrich" /\ idx > Len(results)
    /\ ret' = [results |-> searchReturn(results, limit), err |-> ""]
    /\ pc' = "done"
    /\ UNCHANGED <<p_vars, f_vars, searcher, urlOK, ctx, canceledInFlight, endpoint, apiResponse, resp,
                   openBodies, attempts, envelope, page, results, idx, fetches>>

----------------------------------------------------------------------------
(* Specification of one Search call on either searcher *)

Init ==
    /\ ParserIdle /\ FactoryIdle
    /\ limit \in 0..MaxLimit
    /\ searcher \in {"WebScraper", "SearXNGAPISearcher"}
    /\ urlOK \in BOOLEAN
    /\ ctx \in {"live", "canceled"}
    /\ pc = "request"
    /\ ret = NoReturn /\ canceledInFlight = FALSE
    /\ endpoint = 1 /\ apiResponse = <<>> /\ resp = NoResp /\ openBodies = {}
    /\ attempts = <<>> /\ envelope = NoEnvelope
    /\ page = NoPage /\ results = <<>> /\ idx = 1 /\ fetches = <<>>

Next ==
    \/ APINewRequest \/ APIDoError \/ APIDoResponse \/ APIGzipError
    \/ APIReadError \/ APIReadBody \/ APIDecode \/ APIReturn
    \/ WSNewRequest \/ WSDoError \/ WSDoResponse \/ WSStatusError \/ WSReadError
    \/ WSParse \/ WSContentNewRequest \/ WSContentDoError \/ WSContentDoResponse
    \/ WSContentStatusError \/ WSContentReadError \/ WSContentExtract \/ WSReturn
    \/ Cancel

Spec == Init /\ [][Next]_vars

----------------------------------------------------------------------------
(* Claims about a Search call *)

Done == pc = "done"
Succeeded == Done /\ ret.err = ""

\* C1: a Search call on either searcher that returns without error returns at
\* most `limit` results, whatever the backend answered.
C1_AtMostLimit == Succeeded => Len(ret.results) <= limit

\* the API backend sent more usable entries than the limit, the scraper's
\* counterpart being the parser's own cap
C1_Witness ==
    /\ Succeeded /\ IsAPI /\ limit >= 1
    /\ Len(SelectSeq(apiResponse, LAMBDA r : r.Title # <<>> /\ r.URL # <<>>)) > limit
    /\ Len(ret.results) = limit

\* an envelope entry as the (url, title, content) triple it denotes
Projected(e) == [URL |-> e.url.Val, Title |-> e.title.Val, Content |-> e.content.Val]

\* the first n entries of envelope body E that have a non-empty title and URL
FirstUsable(E, n) ==
    LET usable == SelectSeq(E.Results, LAMBDA e : e.title.Val # <<>> /\ e.url.Val # <<>>)
    IN  [k \in 1..Min(n, Len(usable)) |-> Projected(usable[k])]

FirstFailedSecondDecoded ==
    /\ IsAPI /\ Done /\ Len(attempts) = 2
    /\ attempts[1].Outcome # "decoded"
    /\ attempts[2].Outcome = "decoded" /\ attempts[2].Status = 200
    /\ envelope.HasResults /\ envelope.Results # <<>>

\* C2: when the first endpoint fails and the second returns a decodable
\* envelope E with a non-empty result list, Search returns exactly the first
\* min(limit, k) entries of E with non-empty title and URL, in E's order, each
\* projected to (url, title, content), and no error.
C2_FallbackResult ==
    FirstFailedSecondDecoded =>
        ret.err = "" /\ ret.results = FirstUsable(envelope, limit)

\* C3: if no endpoint's body decodes successfully, whatever the errors were,
\* Search returns the "no valid response" error and no results.
C3_Exhaustion ==
    (IsAPI /\ Done /\ \A k \in 1..Len(attempts) : attempts[k].Outcome # "decoded")
        => ret.err = NoValidResponse /\ ret.results = <<>>

NonSuccess(status) == status # 0 /\ ~(status \in 200..299)

\* C4: an endpoint that answers with a non-2xx status is treated like a
\* transport error: its body is never decoded into the search response, and if
\* it was the last endpoint the call ends with the exhaustion error.
C4_NonSuccessStatus ==
    IsAPI =>
        \A k \in 1..Len(attempts) :
            NonSuccess(attempts[k].Status) =>
                /\ attempts[k].Outcome \notin {"decoded", "type error"}
                /\ (Done /\ attempts[k].Endpoint = endpoints[Len(endpoints)])
                       => ret.err = NoValidResponse

\* the backend answered successfully and has no match
ZeroMatches ==
    \/ IsScraper /\ page.Parsed /\ page.Containers = 0
    \/ /\ IsAPI /\ envelope.Kind = "ok" /\ envelope.HasResults /\ envelope.Results = <<>>
       /\ attempts[Len(attempts)].Status = 200

\* C5: for both searchers, when the backend answers successfully with zero
\* matches, Search returns an empty sequence and no failure.
C5_ZeroMatches == (Done /\ ZeroMatches) => ret.err = "" /\ ret.results = <<>>

\* the loop of the API searcher is working on an endpoint
APIActive == pc \in {"request", "inflight", "read", "decode"}

\* the endpoints the loop has turned to so far, in the order it did
Tried ==
    [k \in 1..Len(attempts) |-> attempts[k].Endpoint]
      \o (IF APIActive THEN <<endpoints[endpoint]>> ELSE <<>>)

\* the endpoints are tried in the order /api/v1/search, /search, each at most
\* once; the second is tried exactly when the attempt on the first ended
\* without a successful decode; nothing is tried after a successful decode
C14_Order ==
    IsAPI =>
        /\ Len(Tried) <= Len(endpoints)
        /\ \A k \in 1..Len(Tried) : Tried[k] = endpoints[k]
        /\ Len(attempts) >= 1 =>
              (Len(Tried) >= 2 <=> attempts[1].Outcome # "decoded")
        /\ \A k \in 1..Len(attempts) :
              attempts[k].Outcome = "decoded" => k = Len(Tried)
        /\ Done => Len(attempts) >= 1

\* the last endpoint tried decoded, and its body held no result entry
DecodedEmpty ==
    /\ Len(attempts) >= 1
    /\ attempts[Len(attempts)].Outcome = "decoded"
    /\ envelope.Results = <<>>

\* C14: the endpoints are requested in the order /api/v1/search, /search, at
\* most once each; the second is requested if and only if the attempt on the
\* first did not decode; after a successful decode no endpoint is requested,
\* and when the decoded result list is empty the call ends with the
\* exhaustion error.
C14_EndpointOrder ==
    /\ C14_Order
    /\ (IsAPI /\ Done /\ DecodedEmpty) => ret.err = NoValidResponse

\* the exhaustion error follows an empty decode in the calls in which no body
\* was decoded in part
C14_NoPartialDecode ==
    (IsAPI /\ Done /\ DecodedEmpty /\ \A k \in 1..Len(attempts) : attempts[k].Outcome # "type error")
        => ret.err = NoValidResponse

\* C15: every response obtained during a Search call of the API searcher has
\* its body closed before the loop turns to the next endpoint and before
\* Search returns, on every path.
C15_BodiesClosed ==
    (IsAPI /\ pc \in {"request", "finish", "done"}) => openBodies = {}

\* C6: once the result page was fetched and parsed into P, Search returns
\* without error a sequence as long as P, in P's order, with P's URLs and
\* titles, whichever content fetches fail; a result whose fetch failed keeps the
\* parser's content, and every result's fetch is attempted.
C6_BestEffort ==
    (IsScraper /\ page.Parsed) =>
        /\ (pc = "enrich" => Len(fetches) = idx - 1)
        /\ Done =>
             /\ ret.err = ""
             /\ Len(ret.results) = Len(page.Results)
             /\ Len(fetches) = Len(page.Results)
             /\ \A k \in 1..Len(page.Results) :
                   /\ ret.results[k].URL = page.Results[k].URL
                   /\ ret.results[k].Title = page.Results[k].Title
                   /\ (fetches[k] # "ok" => ret.results[k].Content = page.Results[k].Content)

\* the first result's fetch failed, the second one's replaced the content
C6_Witness ==
    /\ IsScraper /\ Done /\ Len(page.Results) >= 2
    /\ fetches[1] # "ok" /\ fetches[2] = "ok"
    /\ ret.results[1] = page.Results[1]
    /\ ret.results[2].Content # page.Results[2].Content

\* C7: if the context is canceled while a Search call has a request in flight
\* (result page, content fetch, or endpoint attempt), the call returns a failure.
C7_CancelFails == (Done /\ canceledInFlight) => ret.err # ""

----------------------------------------------------------------------------
(* The searcher factory.  A URL is a sequence of pieces of text, "/" being a *)
(* piece of its own, so that strings.HasSuffix(url, "/") looks at the last.  *)

SearcherTypeScraper == "SearcherTypeScraper"
SearcherTypeAPI == "SearcherTypeAPI"

HasSlashSuffix(url) == url # <<>> /\ url[Len(url)] = "/"

\* NewWebScraper(url): a WebScraper for the given result page URL
NewWebScraper(url) == [Impl |-> "WebScraper", baseURL |-> url]

\* NewSearXNGAPISearcher: the base URL is made to end with a slash
NewSearXNGAPISearcher(baseURL) ==
    [Impl |-> "SearXNGAPISearcher",
     baseURL |-> IF HasSlashSuffix(baseURL) THEN baseURL ELSE Append(baseURL, "/")]

\* NewSearchService, the version that returns (Searcher, error)
NewSearchService(t, url) ==
    CASE t = SearcherTypeScraper ->
           [searcher |-> NewWebScraper(IF url = <<>>
                                       THEN <<"https://html.duckduckgo.com/html", "/", "?q=">>
                                       ELSE url),
            err |-> ""]
      [] t = SearcherTypeAPI ->
           [searcher |-> NewSearXNGAPISearcher(IF url = <<>>
                                               THEN <<"https://searx.grailfinder.net", "/">>
                                               ELSE url),
            err |-> ""]
      [] OTHER -> [searcher |-> NilSearcher, err |-> "unknown searcher type"]

\* NewSearchService, the version that returns a Searcher: nil for an unknown type
NewSearchService_nil(t, url) ==
    CASE t = SearcherTypeScraper ->
           [searcher |-> NewWebScraper(IF url = <<>>
                                       THEN <<"httpsy://html.duckduckgo.com/html", "/", "?q=">>
                                       ELSE url),
            err |-> ""]
      [] t = SearcherTypeAPI ->
           [searcher |-> NewSearXNGAPISearcher(IF url = <<>>
                                               THEN <<"https://searx.grailfinder.net", "/">>
                                               ELSE url),
            err |-> ""]
      [] OTHER -> [searcher |-> NilSearcher, err |-> ""]

\* Server.Search: the switch on searchType that picks sr
ServerSearch_sr(searchType) ==
    CASE searchType = "api" ->
           [searcher |-> NewSearXNGAPISearcher(<<"config.toml">>), err |-> ""]
      [] OTHER ->
           [searcher |-> NewWebScraper(<<"https://html.duckduckgo.com/html", "/", "?q=">>),
            err |-> ""]

KindTags == {SearcherTypeScraper, SearcherTypeAPI, "api", "scraper", "general", "", "ScraperType"}

Overrides == {<<>>, <<"http://localhost:8080">>, <<"http://localhost:8080", "/">>,
              <<"config.toml">>}

FactoryInit ==
    /\ ParserIdle /\ SearchIdle /\ limit = 0
    /\ f_pc = "input" /\ f_via = "none"
    /\ f_t \in KindTags /\ f_url \in Overrides
    /\ f_ret = [searcher |-> NilSearcher, err |-> ""]

CallNewSearchService ==
    /\ f_pc = "input"
    /\ f_ret' = NewSearchService(f_t, f_url)
    /\ f_via' = "NewSearchService" /\ f_pc' = "constructed"
    /\ UNCHANGED <<p_vars, s_vars, f_t, f_url>>

CallNewSearchService_nil ==
    /\ f_pc = "input"
    /\ f_ret' = NewSearchService_nil(f_t, f_url)
    /\ f_via' = "NewSearchService_nil" /\ f_pc' = "constructed"
    /\ UNCHANGED <<p_vars, s_vars, f_t, f_url>>

CallServerSearch ==
    /\ f_pc = "input"
    /\ f_ret' = ServerSearch_sr(f_t)
    /\ f_via' = "Server.Search" /\ f_pc' = "constructed"
    /\ UNCHANGED <<p_vars, s_vars, f_t, f_url>>

FactoryNext == CallNewSearchService \/ CallNewSearchService_nil \/ CallServerSearch

SpecFactory == FactoryInit /\ [][FactoryNext]_vars

\* the searcher a kind tag names on the path taken, "nil" for an unrecognized tag
KindNamed ==
    IF f_via = "Server.Search"
    THEN (CASE f_t = "scraper" -> "WebScraper"
            [] f_t = "api" -> "SearXNGAPISearcher"
            [] OTHER -> "nil")
    ELSE (CASE f_t = SearcherTypeScraper -> "WebScraper"
            [] f_t = SearcherTypeAPI -> "SearXNGAPISearcher"
            [] OTHER -> "nil")

\* C8: a kind tag that names neither searcher yields a construction error, not
\* a nil searcher without error and not a default searcher; a recognized tag
\* yields a searcher of exactly that kind and no error.
C8_SelectionByKind ==
    f_pc = "constructed" =>
        IF KindNamed = "nil"
        THEN f_ret.err # "" /\ f_ret.searcher = NilSearcher
        ELSE f_ret.err = "" /\ f_ret.searcher.Impl = KindNamed

\* what the error-returning NewSearchService alone does
C8_ErrorVersion ==
    (f_pc = "constructed" /\ f_via = "NewSearchService") =>
        IF KindNamed = "nil"
        THEN f_ret.err # "" /\ f_ret.searcher = NilSearcher
        ELSE f_ret.err = "" /\ f_ret.searcher.Impl = KindNamed

====
